---------------------------- MODULE Spec2Model ----------------------------
(***************************************************************************)
(* Model of the uvs editor extension (fllesser/uvs).                       *)
(*                                                                         *)
(* The repository holds four near-duplicate variants of the same flow:     *)
(*   "flag_exec"   src/src/extension.ts   1-176  inline -p flag, exec()    *)
(*   "pin_modterm" src/src/extension.ts 178-335  pin file, module terminal *)
(*   "flag_term"   src/src/extension.ts 337-477  inline -p flag, terminal  *)
(*   "pin_term"    src/README.md         44-186  pin file, named terminal  *)
(* A deployment runs exactly one of them; the variant is fixed in Init.    *)
(*                                                                         *)
(* Strings are sequences of one-character strings, so that the regular     *)
(* expressions of the source are evaluated character by character.         *)
(***************************************************************************)
EXTENDS Integers, Sequences, FiniteSets, TLC

VARIABLES
    variant,        \* which of the four variants is deployed
    cfgCommand,     \* configuration uvs.command
    cfgAutoEnable,  \* configuration uvs.autoEnable
    cfgShowOutput,  \* configuration uvs.showOutput
    fs,             \* workspace folders in enumeration order, with their files
    inv,            \* the sync invocations: 0 is the automatic one, 1.. are manual
    auto,           \* the startup timer task of activate()
    terminals,      \* every 'uvs' terminal created so far: id -> open / closed
    terminal,       \* the module-level `terminal` variable (0 = undefined)
    closes,         \* number of terminals the user has closed
    arg,            \* input of the pure-function specifications
    res             \* output of the pure-function specifications

vars == <<variant, cfgCommand, cfgAutoEnable, cfgShowOutput, fs, inv, auto,
          terminals, terminal, closes, arg, res>>

(***************************************************************************)
(* Bounds of the model.                                                    *)
(***************************************************************************)
MaxDirs == 2
MaxManual == 1
MaxCloses == 1
MaxPieces == 4
MaxVerPieces == 4

\* values that stand for "no string": one-element sequences no text can equal
None == <<"<none>">>
NoFile == <<"<nofile>">>
Unset == <<"<unset>">>

(***************************************************************************)
(* Characters and string helpers.                                          *)
(***************************************************************************)
Digits == {"0", "1", "2", "3", "4", "5", "6", "7", "8", "9"}

LowerLetters ==
    <<"a", "b", "c", "d", "e", "f", "g", "h", "i", "j", "k", "l", "m",
      "n", "o", "p", "q", "r", "s", "t", "u", "v", "w", "x", "y", "z">>

UpperLetters ==
    <<"A", "B", "C", "D", "E", "F", "G", "H", "I", "J", "K", "L", "M",
      "N", "O", "P", "Q", "R", "S", "T", "U", "V", "W", "X", "Y", "Z">>

\* \s of a JavaScript regular expression, and the characters trim() strips
IsSpace(c) == c \in {" ", "\t", "\n"}

\* \w of a JavaScript regular expression
IsWord(c) ==
    \/ c \in Digits
    \/ c = "_"
    \/ \E k \in 1..26 : c = LowerLetters[k] \/ c = UpperLetters[k]

\* case folding of the `i` flag
Lower(c) ==
    IF \E k \in 1..26 : c = UpperLetters[k]
    THEN LowerLetters[CHOOSE k \in 1..26 : c = UpperLetters[k]]
    ELSE c

\* the literal lit occurs in s at position i
StartsAt(s, i, lit) ==
    /\ i >= 1
    /\ i + Len(lit) - 1 <= Len(s)
    /\ \A k \in 1..Len(lit) : s[i + k - 1] = lit[k]

\* the same, under the `i` flag
StartsAtNoCase(s, i, lit) ==
    /\ i >= 1
    /\ i + Len(lit) - 1 <= Len(s)
    /\ \A k \in 1..Len(lit) : Lower(s[i + k - 1]) = Lower(lit[k])

\* \b between positions k and k+1 of s
WordBoundary(s, k) ==
    LET before == k >= 1 /\ k <= Len(s) /\ IsWord(s[k])
        after  == k + 1 >= 1 /\ k + 1 <= Len(s) /\ IsWord(s[k + 1])
    IN  before # after

\* String.prototype.trim
RECURSIVE TrimLeft(_)
TrimLeft(s) ==
    IF s # <<>> /\ IsSpace(Head(s)) THEN TrimLeft(Tail(s)) ELSE s

RECURSIVE TrimRight(_)
TrimRight(s) ==
    IF s # <<>> /\ IsSpace(s[Len(s)])
    THEN TrimRight(SubSeq(s, 1, Len(s) - 1))
    ELSE s

Trim(s) == TrimRight(TrimLeft(s))

\* !command || command.trim().length === 0
IsBlank(command) == command = <<>> \/ Len(Trim(command)) = 0

\* first position >= i of s that holds no white space (Len(s)+1 when none)
RECURSIVE SkipSpaces(_, _)
SkipSpaces(s, i) ==
    IF i <= Len(s) /\ IsSpace(s[i]) THEN SkipSpaces(s, i + 1) ELSE i

\* first position >= i of s that holds no digit
RECURSIVE SkipDigits(_, _)
SkipDigits(s, i) ==
    IF i <= Len(s) /\ s[i] \in Digits THEN SkipDigits(s, i + 1) ELSE i

\* concatenation of a sequence of strings
RECURSIVE Concat(_)
Concat(ss) == IF ss = <<>> THEN <<>> ELSE Head(ss) \o Concat(Tail(ss))

\* every sequence over S of length at most n
SeqsUpTo(S, n) == UNION {[1..k -> S] : k \in 0..n}

(***************************************************************************)
(* Help-flag cleanup of runSyncCommand (pin_modterm variant).              *)
(*   /(?:\s|^)(?:-h\b|--help\b|-help\b)(?:\s|$)/g                          *)
(***************************************************************************)
\* the alternatives -h, --help, -help in the order the pattern tries them
HelpFlags ==
    << <<"-", "h">>,
       <<"-", "-", "h", "e", "l", "p">>,
       <<"-", "h", "e", "l", "p">> >>

\* flag\b(?:\s|$) at position j: the position after the match, 0 when none
HelpFlagEnd(s, j, flag) ==
    LET e == j + Len(flag)
    IN  IF ~(StartsAt(s, j, flag) /\ WordBoundary(s, e - 1)) THEN 0
        ELSE IF e <= Len(s) /\ IsSpace(s[e]) THEN e + 1
        ELSE IF e = Len(s) + 1 THEN e
        ELSE 0

\* (?:-h\b|--help\b|-help\b)(?:\s|$) at position j: first alternative that matches
HelpAt(s, j) ==
    IF HelpFlagEnd(s, j, HelpFlags[1]) # 0 THEN HelpFlagEnd(s, j, HelpFlags[1])
    ELSE IF HelpFlagEnd(s, j, HelpFlags[2]) # 0 THEN HelpFlagEnd(s, j, HelpFlags[2])
    ELSE HelpFlagEnd(s, j, HelpFlags[3])

\* the whole pattern tried at position i; (?:\s|^) tries \s first, then ^
HelpMatchAt(s, i) ==
    IF i <= Len(s) /\ IsSpace(s[i]) /\ HelpAt(s, i + 1) # 0 THEN HelpAt(s, i + 1)
    ELSE IF i = 1 /\ HelpAt(s, 1) # 0 THEN HelpAt(s, 1)
    ELSE 0

\* command.replace(helpRemovePattern, ' '), scanning from position i: a match is
\* replaced by one space and the scan resumes after the text it consumed
RECURSIVE ReplaceHelp(_, _)
ReplaceHelp(s, i) ==
    IF i > Len(s) THEN <<>>
    ELSE IF HelpMatchAt(s, i) # 0
         THEN <<" ">> \o ReplaceHelp(s, HelpMatchAt(s, i))
         ELSE <<s[i]>> \o ReplaceHelp(s, i + 1)

\* .replace(/\s+/g, ' ')
RECURSIVE CollapseSpaces(_)
CollapseSpaces(s) ==
    IF s = <<>> THEN <<>>
    ELSE IF IsSpace(Head(s))
         THEN <<" ">> \o CollapseSpaces(TrimLeft(s))
         ELSE <<Head(s)>> \o CollapseSpaces(Tail(s))

\* const cleaned = command.replace(helpRemovePattern, ' ').replace(/\s+/g, ' ').trim()
CleanHelp(command) == Trim(CollapseSpaces(ReplaceHelp(command, 1)))

(***************************************************************************)
(* Version inference: the two regular expressions of detectMinPythonVersion*)
(* and ensurePythonVersion.                                                *)
(***************************************************************************)
\* {0,2} of /([0-9]+(?:\.[0-9]+){0,2})/
MaxExtraComponents == 2

\* (?:\.[0-9]+){0,n} at position e, greedy: the position after the match
RECURSIVE ExtendComponents(_, _, _)
ExtendComponents(s, e, n) ==
    IF n > 0 /\ e <= Len(s) /\ s[e] = "." /\ SkipDigits(s, e + 1) > e + 1
    THEN ExtendComponents(s, SkipDigits(s, e + 1), n - 1)
    ELSE e

\* [0-9]+(?:\.[0-9]+){0,2} at position j: the position after the match, j when none
VersionEnd(s, j) ==
    IF SkipDigits(s, j) = j THEN j
    ELSE ExtendComponents(s, SkipDigits(s, j), MaxExtraComponents)

\* (a variant of GeAt that takes ==X and ~=X for a lower bound as well)
GeAtAnyComparator(s, i) ==
    LET j == SkipSpaces(s, i + 2)
    IN  IF i + 1 <= Len(s) /\ s[i] \in {">", "=", "~"} /\ s[i + 1] = "="
           /\ VersionEnd(s, j) > j
        THEN <<j, VersionEnd(s, j)>>
        ELSE <<0, 0>>

\* />=\s*(...)/ tried at position i: <<start, end>> of group 1, <<0, 0>> when none
GeAt(s, i) ==
    LET j == SkipSpaces(s, i + 2)
    IN  IF StartsAt(s, i, <<">", "=">>) /\ VersionEnd(s, j) > j
        THEN <<j, VersionEnd(s, j)>>
        ELSE <<0, 0>>

\* spec.match(/>=\s*([0-9]+(?:\.[0-9]+){0,2})/): group 1 of the leftmost match
GeMatch(s) ==
    LET hits == {i \in 1..Len(s) : GeAt(s, i)[1] # 0}
    IN  IF hits = {} THEN None
        ELSE LET i0 == CHOOSE i \in hits : \A k \in hits : i <= k
             IN  SubSeq(s, GeAt(s, i0)[1], GeAt(s, i0)[2] - 1)

KeyLit ==
    <<"r", "e", "q", "u", "i", "r", "e", "s", "-", "p", "y", "t", "h", "o", "n">>

\* first position >= i of s that holds a character of stop (Len(s)+1 when none)
RECURSIVE RunEnd(_, _, _)
RunEnd(s, i, stop) ==
    IF i <= Len(s) /\ s[i] \notin stop THEN RunEnd(s, i + 1, stop) ELSE i

\* (?:"([^"]+)"|'([^']+)'|([^\n#]+)) at position q: the group that took part,
\* None when no alternative matches. closeQuote is FALSE for the pattern of
\* src/src/extension.ts:41, whose first alternative has no closing quote.
ValueAt(s, q, closeQuote) ==
    LET dq == RunEnd(s, q + 1, {"\""})
        sq == RunEnd(s, q + 1, {"'"})
        un == RunEnd(s, q, {"\n", "#"})
    IN  IF q <= Len(s) /\ s[q] = "\"" /\ dq > q + 1
           /\ (closeQuote => dq <= Len(s))
        THEN SubSeq(s, q + 1, dq - 1)
        ELSE IF q <= Len(s) /\ s[q] = "'" /\ sq > q + 1 /\ sq <= Len(s)
        THEN SubSeq(s, q + 1, sq - 1)
        ELSE IF un > q
        THEN SubSeq(s, q, un - 1)
        ELSE None

\* \s* before the value is greedy and gives white space back one character at a
\* time: the value is tried at q, q-1, ..., lo
RECURSIVE ValueFrom(_, _, _, _)
ValueFrom(s, q, lo, closeQuote) ==
    IF q < lo THEN None
    ELSE IF ValueAt(s, q, closeQuote) # None THEN ValueAt(s, q, closeQuote)
    ELSE ValueFrom(s, q - 1, lo, closeQuote)

\* /requires-python\s*=\s*(...)/i tried at position i
ReqAt(s, i, closeQuote) ==
    LET p == SkipSpaces(s, i + Len(KeyLit))
    IN  IF StartsAtNoCase(s, i, KeyLit) /\ p <= Len(s) /\ s[p] = "="
        THEN ValueFrom(s, SkipSpaces(s, p + 1), p + 1, closeQuote)
        ELSE None

\* const spec = reqMatch ? (reqMatch[1] || reqMatch[2] || reqMatch[3] || '').trim() : ''
ExtractSpec(content, closeQuote) ==
    LET hits == {i \in 1..Len(content) : ReqAt(content, i, closeQuote) # None}
    IN  IF hits = {} THEN <<>>
        ELSE Trim(ReqAt(content, CHOOSE i \in hits : \A k \in hits : i <= k, closeQuote))

\* the minimum version the manifest text yields (None = no inference)
MinVersionOf(content, closeQuote) ==
    IF ExtractSpec(content, closeQuote) = <<>> THEN None
    ELSE GeMatch(ExtractSpec(content, closeQuote))

(***************************************************************************)
(* The four variants and what distinguishes them.                          *)
(***************************************************************************)
Variants == {"flag_exec", "pin_modterm", "flag_term", "pin_term"}

\* ensurePythonVersion (pin file) rather than detectMinPythonVersion (-p flag)
PinPolicy(v) == v \in {"pin_modterm", "pin_term"}

\* the command is run by execAsync rather than sent to a terminal
UsesExec(v) == v = "flag_exec"

\* runSyncCommand strips help flags
CleansHelp(v) == v = "pin_modterm"

\* (RequiresLock that never asks for uv.lock)
RequiresLockNever(v) == FALSE

\* the automatic trigger also requires uv.lock
RequiresLock(v) == v = "flag_exec"

\* the requires-python pattern closes its double quote
ClosesQuote(v) == v # "flag_exec"

\* runSyncCommand takes a showOutput parameter
TakesShowOutput(v) == v # "flag_exec"

(***************************************************************************)
(* Messages shown to the user.                                             *)
(***************************************************************************)
ErrNoCommand == "error: uvs: no command configured"
WarnHelpOnly == "warning: uvs: command only contained help flags and was not executed"
InfoPinCreated == "info: .python-version created"
ErrRunFailed == "error: uvs: failed to run command"
InfoRunning == "info: uvs: Running"
InfoSyncDone == "info: uvs: Sync completed successfully"
ErrSyncFailed == "error: uvs: Sync failed"
Unhandled == "unhandled rejection"

ErrorMessages == {ErrNoCommand, ErrRunFailed, ErrSyncFailed}

(***************************************************************************)
(* Inputs of the model: configured commands, manifests, pin files.         *)
(***************************************************************************)
CmdEmpty == <<>>
CmdBlank == <<" ", "\t">>
CmdHelpOnly == <<" ", "-", "h", " ">>
CmdPlain == <<"u", "v">>
CmdWithHelp == <<"u", "v", " ", "-", "h">>

CommandSet == {CmdEmpty, CmdBlank, CmdHelpOnly, CmdPlain, CmdWithHelp}

\* requires-python = ">=3.10"
ManifestGe ==
    KeyLit \o <<" ", "=", " ", "\"", ">", "=", "3", ".", "1", "0", "\"", "\n">>

\* requires-python = "3"
ManifestBare == KeyLit \o <<" ", "=", " ", "\"", "3", "\"", "\n">>

ManifestSet == {ManifestGe, ManifestBare}

\* a .python-version that was there before the extension ran
PinExisting == <<"3", ".", "9", "\n">>

\* uv.lock is only looked for after pyproject.toml was found, so a folder
\* without a manifest is taken without a lock file
DirStates ==
    {d \in [manifest : ManifestSet \cup {NoFile}, lock : BOOLEAN,
            pin : {NoFile, PinExisting}] : d.manifest = NoFile => ~d.lock}

(***************************************************************************)
(* The string functions applied to every input of the model. The tables    *)
(* are constants, so each regular expression is run once per input and the *)
(* actions below look the result up.                                       *)
(***************************************************************************)
\* command -> !command || command.trim().length === 0
IsBlankOf == [c \in CommandSet |-> IsBlank(c)]

\* command -> cleaned
CleanHelpOf == [c \in CommandSet |-> CleanHelp(c)]

\* manifest text, pattern variant -> minVersion
MinVersionIn ==
    [m \in ManifestSet |-> [closeQuote \in BOOLEAN |-> MinVersionOf(m, closeQuote)]]

(***************************************************************************)
(* One sync invocation (one call of runSyncCommand).                       *)
(***************************************************************************)
InvIdle ==
    [pc         |-> "idle",     \* where the call is suspended
     configured |-> <<>>,       \* the command parameter as passed
     command    |-> <<>>,       \* `command` / `finalCommand` as the call goes on
     folder     |-> 0,          \* folderUri as an index of fs, 0 = undefined
     showOutput |-> FALSE,      \* the showOutput parameter (FALSE when there is none)
     pinSeen    |-> "unchecked",\* result of the stat of .python-version
     minVersion |-> None,       \* minVersion
     inferDone  |-> FALSE,      \* the inference call has returned
     wrote      |-> FALSE,      \* this call wrote .python-version
     writeFailed|-> FALSE,      \* this call's writeFile threw
     sent       |-> None,       \* text handed to exec / terminal.sendText
     sentTo     |-> 0,          \* terminal it was sent to
     sendOk     |-> FALSE,      \* sendText returned without throwing
     revealed   |-> FALSE,      \* terminal.show(true) was called and returned
     term       |-> 0,          \* the terminal this call holds
     created    |-> FALSE,      \* this call called createTerminal
     msgs       |-> {},         \* messages this call showed
     inDelay    |-> FALSE]      \* the startup timer was pending when the call began

\* `${command} -p ${minVersion}`
WithFlag(command, minVersion) == command \o <<" ", "-", "p", " ">> \o minVersion

\* (PinContent without the newline)
PinContentNoNewline(minVersion) == minVersion

\* encoder.encode(minVersion + '\n')
PinContent(minVersion) == minVersion \o <<"\n">>

\* (FinalCommand that never appends the flag)
FinalCommandNoFlag(v, command, minVersion) == command

\* the text runSyncCommand hands to the substrate

FinalCommand(v, command, minVersion) ==
    IF ~PinPolicy(v) /\ minVersion # None
    THEN WithFlag(command, minVersion)
    ELSE command

\* whether terminal.show(true) is called: README.md:131 calls it whatever the flag
Shows(v, showOutput) ==
    IF v = "pin_term" THEN TRUE ELSE showOutput

\* flag_exec: the log lines, the "Running" message and the call of execAsync
ExecSubmit(w) ==
    [w EXCEPT !.r.pc = "exec_wait",
              !.r.sent = FinalCommand(variant, w.r.command, w.r.minVersion),
              !.r.msgs = @ \cup {InfoRunning}]

\* (AcquireTerminal that creates a terminal on every call)
AcquireTerminalAlwaysNew(w) ==
    LET new == Len(w.terms) + 1
    IN  IF variant = "pin_modterm"
        THEN [w EXCEPT !.terms = Append(@, "open"), !.modterm = new,
                       !.r.term = new, !.r.created = TRUE]
        ELSE [w EXCEPT !.terms = Append(@, "open"),
                       !.r.term = new, !.r.created = TRUE,
                       !.r.pc = "wait_venv"]

\* if (!terminal) terminal = createTerminal(...)   /   terminals.find(...) ?? create.
\* createTerminal adds the terminal to window.terminals before it returns.

AcquireTerminal(w) ==
    LET open == {t \in 1..Len(w.terms) : w.terms[t] = "open"}
        new  == Len(w.terms) + 1
    IN  IF variant = "pin_modterm"
        THEN IF w.modterm = 0
             THEN [w EXCEPT !.terms = Append(@, "open"), !.modterm = new,
                            !.r.term = new, !.r.created = TRUE]
             ELSE [w EXCEPT !.r.term = w.modterm]
        ELSE IF open = {}
             THEN [w EXCEPT !.terms = Append(@, "open"),
                            !.r.term = new, !.r.created = TRUE,
                            !.r.pc = "wait_venv"]
             ELSE [w EXCEPT !.r.term = CHOOSE t \in open : \A u \in open : t <= u]

\* terminal.sendText / terminal.show and the try-catch around them. A call on a
\* terminal the user has closed either throws or is dropped by the host: throws
\* says which.
SendAndShow(w, throws) ==
    LET r    == w.r
        fail == w.terms[r.term] = "closed" /\ throws
        cmd  == FinalCommand(variant, r.command, r.minVersion)
        show == Shows(variant, r.showOutput)
    IN  IF variant = "flag_term" /\ show /\ fail
        THEN \* terminal.show(true) stands outside the try block
             [w EXCEPT !.r.pc = "done", !.r.msgs = @ \cup {Unhandled}]
        ELSE [w EXCEPT !.r.pc = "done",
                       !.r.sent = cmd,
                       !.r.sentTo = r.term,
                       !.r.sendOk = ~fail,
                       !.r.revealed = show /\ ~fail,
                       !.r.msgs = IF fail THEN @ \cup {ErrRunFailed} ELSE @]

\* runSyncCommand from the end of inference to its next await or its end
RunSession(w, throws) ==
    IF UsesExec(variant) THEN ExecSubmit(w)
    ELSE IF AcquireTerminal(w).r.pc = "wait_venv" THEN AcquireTerminal(w)
    ELSE SendAndShow(AcquireTerminal(w), throws)

\* (AfterValidation that does not wait for the inference)
AfterValidationNoInference(w, throws) == RunSession(w, throws)

\* where a validated call goes next: inference when it has a folder

AfterValidation(w, throws) ==
    IF w.r.folder # 0
    THEN [w EXCEPT !.r.pc = "stat_pin"]
    ELSE RunSession(w, throws)

\* (RejectsBlank without the check)
RejectsBlankNever(command) == FALSE

\* the command is rejected by the first check of runSyncCommand

RejectsBlank(command) == IsBlankOf[command]

\* runSyncCommand from its entry to its first await (or its end)
StartInvocation(w, command, folder, showOutput, throws) ==
    LET r0 == [InvIdle EXCEPT !.configured = command, !.command = command,
                              !.folder = folder,
                              !.inDelay = (auto.pc = "timer"),
                              !.showOutput = TakesShowOutput(variant)
                                             /\ showOutput]
    IN  IF RejectsBlank(command)
        THEN [w EXCEPT !.r = [r0 EXCEPT !.pc = "done", !.msgs = {ErrNoCommand}]]
        ELSE IF CleansHelp(variant) /\ CleanHelpOf[command] = <<>>
        THEN [w EXCEPT !.r = [r0 EXCEPT !.pc = "done", !.msgs = {WarnHelpOnly}]]
        ELSE AfterValidation(
                 [w EXCEPT !.r = [r0 EXCEPT !.command =
                                     IF CleansHelp(variant)
                                     THEN CleanHelpOf[command] ELSE command]],
                 throws)

\* the part of the state one invocation's synchronous code works on
World(i) == [r |-> inv[i], terms |-> terminals, modterm |-> terminal]

\* store what the synchronous code of invocation i produced
Commit(i, w) ==
    /\ inv' = [inv EXCEPT ![i] = w.r]
    /\ terminals' = w.terms
    /\ terminal' = w.modterm

(***************************************************************************)
(* Initial state: the extension has been activated.                        *)
(***************************************************************************)
Invocations == 0..MaxManual

\* pc: where the timer callback is; k: the folder of the loop; checked: the
\* folders whose pyproject.toml was looked for; found: foundFolderUri; runs: the
\* number of calls of runSyncCommand the callback made
AutoIdle == [pc |-> "off", k |-> 0, checked |-> {}, found |-> 0, runs |-> 0]

Init ==
    /\ variant \in Variants
    /\ cfgCommand \in CommandSet
    /\ cfgAutoEnable \in BOOLEAN
    /\ cfgShowOutput \in BOOLEAN
    /\ fs \in SeqsUpTo(DirStates, MaxDirs)
    \* what a variant never reads is left at one value
    /\ TakesShowOutput(variant) \/ ~cfgShowOutput
    /\ RequiresLock(variant) \/ \A d \in 1..Len(fs) : ~fs[d].lock
    /\ inv = [i \in Invocations |-> InvIdle]
    /\ auto = [AutoIdle EXCEPT !.pc = IF cfgAutoEnable THEN "timer" ELSE "off"]
    /\ terminals = <<>>
    /\ terminal = 0
    /\ closes = 0
    /\ arg = <<>>
    /\ res = Unset

(***************************************************************************)
(* activate(): the manual command and the startup timer.                   *)
(***************************************************************************)
\* (FirstFolder that takes the first folder with a manifest)
FirstFolderWithManifest ==
    IF \E d \in 1..Len(fs) : fs[d].manifest # NoFile
    THEN CHOOSE d \in 1..Len(fs) :
             fs[d].manifest # NoFile /\ \A e \in 1..(d - 1) : fs[e].manifest = NoFile
    ELSE 0

\* uvs.syncNow: workspaceFolders[0] when there is one, undefined otherwise
FirstFolder == IF Len(fs) > 0 THEN 1 ELSE 0

ManualTrigger ==
    /\ \E i \in 1..MaxManual :
          /\ inv[i].pc = "idle"
          /\ \A j \in 1..(i - 1) : inv[j].pc # "idle"
          /\ \E throws \in BOOLEAN :
                Commit(i, StartInvocation(World(i), cfgCommand, FirstFolder,
                                          cfgShowOutput, throws))
    /\ UNCHANGED <<variant, cfgCommand, cfgAutoEnable, cfgShowOutput, fs, auto,
                   closes, arg, res>>

\* the setTimeout callback starts: the stat of the first folder's pyproject.toml
TimerFires ==
    /\ auto.pc = "timer"
    /\ auto' = IF Len(fs) = 0
               THEN [auto EXCEPT !.pc = "done"]
               ELSE [auto EXCEPT !.pc = "manifest", !.k = 1, !.checked = {1}]
    /\ UNCHANGED <<variant, cfgCommand, cfgAutoEnable, cfgShowOutput, fs, inv,
                   terminals, terminal, closes, arg, res>>

\* the loop goes on to the next folder, or ends without one
NextFolder ==
    /\ auto' = IF auto.k < Len(fs)
               THEN [auto EXCEPT !.pc = "manifest", !.k = @ + 1,
                                 !.checked = @ \cup {auto.k + 1}]
               ELSE [auto EXCEPT !.pc = "done"]
    /\ UNCHANGED <<inv, terminals, terminal>>

\* found = true; break; await runSyncCommand(cfg..., foundFolderUri)
FolderFound ==
    /\ auto' = [auto EXCEPT !.pc = "done", !.found = auto.k, !.runs = @ + 1]
    /\ \E throws \in BOOLEAN :
          Commit(0, StartInvocation(World(0), cfgCommand, auto.k,
                                    cfgShowOutput, throws))

\* the stat of pyproject.toml in folder k resolves
ScanManifest ==
    /\ auto.pc = "manifest"
    /\ IF fs[auto.k].manifest = NoFile THEN NextFolder
       ELSE IF RequiresLock(variant)
            THEN /\ auto' = [auto EXCEPT !.pc = "lock"]
                 /\ UNCHANGED <<inv, terminals, terminal>>
            ELSE FolderFound
    /\ UNCHANGED <<variant, cfgCommand, cfgAutoEnable, cfgShowOutput, fs,
                   closes, arg, res>>

\* flag_exec: the stat of uv.lock in folder k resolves
ScanLock ==
    /\ auto.pc = "lock"
    /\ IF fs[auto.k].lock THEN FolderFound ELSE NextFolder
    /\ UNCHANGED <<variant, cfgCommand, cfgAutoEnable, cfgShowOutput, fs,
                   closes, arg, res>>

(***************************************************************************)
(* Version inference of one invocation, one action per awaited operation.  *)
(***************************************************************************)
\* (PinExists whose stat always throws)
PinExistsNever(d) == FALSE

\* await vscode.workspace.fs.stat(pyverUri) does not throw

PinExists(d) == fs[d].pin # NoFile

\* the stat of .python-version resolves
StatPin(i) ==
    /\ inv[i].pc = "stat_pin"
    /\ inv' = [inv EXCEPT ![i] =
                 IF PinExists(inv[i].folder)
                 THEN [@ EXCEPT !.pinSeen = "exists", !.inferDone = TRUE,
                                !.pc = "session"]
                 ELSE [@ EXCEPT !.pinSeen = "absent", !.pc = "read_manifest"]]
    /\ UNCHANGED <<variant, cfgCommand, cfgAutoEnable, cfgShowOutput, fs, auto,
                   terminals, terminal, closes, arg, res>>

\* the readFile of pyproject.toml resolves; the two patterns are applied
ReadManifest(i) ==
    LET content == fs[inv[i].folder].manifest
        found   == IF content = NoFile THEN None
                   ELSE MinVersionIn[content][ClosesQuote(variant)]
    IN  /\ inv[i].pc = "read_manifest"
        /\ inv' = [inv EXCEPT ![i] =
                     IF found # None /\ PinPolicy(variant)
                     THEN [@ EXCEPT !.minVersion = found, !.pc = "write_pin"]
                     ELSE [@ EXCEPT !.minVersion = found, !.inferDone = TRUE,
                                    !.pc = "session"]]
        /\ UNCHANGED <<variant, cfgCommand, cfgAutoEnable, cfgShowOutput, fs, auto,
                       terminals, terminal, closes, arg, res>>

\* the writeFile of .python-version resolves or throws
WritePin(i) ==
    /\ inv[i].pc = "write_pin"
    /\ \E ok \in BOOLEAN :
          IF ok
          THEN /\ fs' = [fs EXCEPT ![inv[i].folder].pin =
                                      PinContent(inv[i].minVersion)]
               /\ inv' = [inv EXCEPT ![i] =
                            [@ EXCEPT !.wrote = TRUE, !.inferDone = TRUE,
                                      !.msgs = @ \cup {InfoPinCreated},
                                      !.pc = "session"]]
          ELSE /\ fs' = fs
               /\ inv' = [inv EXCEPT ![i] =
                            [@ EXCEPT !.writeFailed = TRUE, !.inferDone = TRUE,
                                      !.pc = "session"]]
    /\ UNCHANGED <<variant, cfgCommand, cfgAutoEnable, cfgShowOutput, auto,
                   terminals, terminal, closes, arg, res>>

(***************************************************************************)
(* The execution session.                                                  *)
(***************************************************************************)
\* runSyncCommand resumes after the inference call
Session(i) ==
    /\ inv[i].pc = "session"
    /\ \E throws \in BOOLEAN : Commit(i, RunSession(World(i), throws))
    /\ UNCHANGED <<variant, cfgCommand, cfgAutoEnable, cfgShowOutput, fs, auto,
                   closes, arg, res>>

\* the 500 ms wait after createTerminal is over
VenvWaitOver(i) ==
    /\ inv[i].pc = "wait_venv"
    /\ \E throws \in BOOLEAN : Commit(i, SendAndShow(World(i), throws))
    /\ UNCHANGED <<variant, cfgCommand, cfgAutoEnable, cfgShowOutput, fs, auto,
                   closes, arg, res>>

\* flag_exec: execAsync resolves or rejects
ExecSettles(i) ==
    /\ inv[i].pc = "exec_wait"
    /\ \E ok \in BOOLEAN :
          inv' = [inv EXCEPT ![i] =
                    [@ EXCEPT !.pc = "done", !.sendOk = ok,
                              !.msgs = @ \cup {IF ok THEN InfoSyncDone
                                               ELSE ErrSyncFailed}]]
    /\ UNCHANGED <<variant, cfgCommand, cfgAutoEnable, cfgShowOutput, fs, auto,
                   terminals, terminal, closes, arg, res>>

\* the user closes a 'uvs' terminal
CloseTerminal ==
    /\ closes < MaxCloses
    /\ \E t \in 1..Len(terminals) :
          /\ terminals[t] = "open"
          /\ terminals' = [terminals EXCEPT ![t] = "closed"]
    /\ closes' = closes + 1
    /\ UNCHANGED <<variant, cfgCommand, cfgAutoEnable, cfgShowOutput, fs, inv,
                   auto, terminal, arg, res>>

Step(i) ==
    \/ StatPin(i)
    \/ ReadManifest(i)
    \/ WritePin(i)
    \/ Session(i)
    \/ VenvWaitOver(i)
    \/ ExecSettles(i)

Next ==
    \/ ManualTrigger
    \/ TimerFires
    \/ ScanManifest
    \/ ScanLock
    \/ \E i \in Invocations : StatPin(i)
    \/ \E i \in Invocations : ReadManifest(i)
    \/ \E i \in Invocations : WritePin(i)
    \/ \E i \in Invocations : Session(i)
    \/ \E i \in Invocations : VenvWaitOver(i)
    \/ \E i \in Invocations : ExecSettles(i)
    \/ CloseTerminal

Spec == Init /\ [][Next]_vars

(***************************************************************************)
(* Specifications of the two pure string functions: the input is drawn in  *)
(* the initial state and one action applies the function.                  *)
(***************************************************************************)
Quiescent ==
    /\ variant = "pin_modterm"
    /\ cfgCommand = CmdPlain
    /\ cfgAutoEnable = FALSE
    /\ cfgShowOutput = FALSE
    /\ fs = <<>>
    /\ inv = [i \in Invocations |-> InvIdle]
    /\ auto = AutoIdle
    /\ terminals = <<>>
    /\ terminal = 0
    /\ closes = 0

\* pieces commands are put together from
CommandPieces ==
    { <<" ">>, <<"\t">>, <<"x">>,
      <<"-", "h">>, <<" ", "-", "h">>,
      <<"-", "-", "h", "e", "l", "p">>,
      <<"-", "h", "e", "l", "p">>,
      <<"u", "v", " ", "s", "y", "n", "c", " ", "-", "-", "f", "r", "o", "z", "e", "n">>,
      <<" ", "e", "x", "t", "r", "a">> }

CleanInit ==
    /\ Quiescent
    /\ arg \in {Concat(ps) : ps \in SeqsUpTo(CommandPieces, MaxPieces)}
    /\ res = Unset

ApplyClean ==
    /\ res = Unset
    /\ res' = CleanHelp(arg)
    /\ UNCHANGED <<variant, cfgCommand, cfgAutoEnable, cfgShowOutput, fs, inv,
                   auto, terminals, terminal, closes, arg>>

CleanSpec == CleanInit /\ [][ApplyClean]_vars

\* pieces version-constraint strings are put together from
VersionPieces ==
    { <<">", "=">>, <<">">>, <<"=", "=">>, <<"!", "=">>, <<"<", "4">>,
      <<"3">>, <<"3", ".", "8">>, <<".", "1", "0">>, <<".">>, <<",">>, <<" ">> }

VersionInit ==
    /\ Quiescent
    /\ arg \in {Concat(ps) : ps \in SeqsUpTo(VersionPieces, MaxVerPieces)}
    /\ res = Unset

ApplyGeMatch ==
    /\ res = Unset
    /\ res' = GeMatch(arg)
    /\ UNCHANGED <<variant, cfgCommand, cfgAutoEnable, cfgShowOutput, fs, inv,
                   auto, terminals, terminal, closes, arg>>

VersionSpec == VersionInit /\ [][ApplyGeMatch]_vars

(***************************************************************************)
(* Claims.                                                                 *)
(***************************************************************************)
Started(i) == inv[i].pc # "idle"

\* C1: no sync invocation hands an empty or blank command to the substrate.
\* A call whose configured command is empty or white space only shows the
\* configuration error and ends; a call whose command the help-flag cleanup
\* reduces to the empty string shows the warning and ends; neither hands
\* anything to exec / sendText nor creates a terminal.
C1_NoBlankCommandSubmitted ==
    \A i \in Invocations :
        /\ inv[i].sent # None => Len(Trim(inv[i].sent)) > 0
        /\ (Started(i) /\ Trim(inv[i].configured) = <<>>) =>
              /\ inv[i].pc = "done"
              /\ inv[i].msgs = {ErrNoCommand}
              /\ inv[i].sent = None
              /\ ~inv[i].created /\ inv[i].term = 0
        /\ (Started(i) /\ variant = "pin_modterm"
              /\ Trim(inv[i].configured) # <<>>
              /\ CleanHelp(inv[i].configured) = <<>>) =>
              /\ inv[i].pc = "done"
              /\ inv[i].msgs = {WarnHelpOnly}
              /\ inv[i].sent = None
              /\ ~inv[i].created /\ inv[i].term = 0

\* C1 witness: a call with the command ' -h ' has ended with the warning and
\* no terminal exists
C1_Witness ==
    \E i \in Invocations :
        /\ variant = "pin_modterm"
        /\ inv[i].configured = CmdHelpOnly
        /\ inv[i].pc = "done"
        /\ WarnHelpOnly \in inv[i].msgs
        /\ terminals = <<>>

\* the white-space separated tokens of s, in order
RECURSIVE Tokens(_)
Tokens(s) ==
    LET t == TrimLeft(s)
        e == RunEnd(t, 1, {" ", "\t", "\n"})
    IN  IF t = <<>> THEN <<>>
        ELSE <<SubSeq(t, 1, e - 1)>> \o Tokens(SubSeq(t, e, Len(t)))

\* the tokens joined by single spaces
RECURSIVE JoinTokens(_)
JoinTokens(ts) ==
    IF ts = <<>> THEN <<>>
    ELSE IF Len(ts) = 1 THEN ts[1]
    ELSE ts[1] \o <<" ">> \o JoinTokens(Tail(ts))

IsHelpToken(tok) == \E k \in 1..3 : tok = HelpFlags[k]

\* C2: the cleanup removes every token that is exactly -h, --help or -help,
\* also several in a row, and leaves every other token unchanged, in order,
\* separated by single spaces.
C2_CleanupRemovesEveryHelpToken ==
    res # Unset =>
        res = JoinTokens(SelectSeq(Tokens(arg), LAMBDA tok : ~IsHelpToken(tok)))

\* x is one to three dot-separated runs of digits
IsVersionText(x) ==
    /\ x # <<>>
    /\ \A k \in 1..Len(x) : x[k] \in Digits \cup {"."}
    /\ x[1] # "." /\ x[Len(x)] # "."
    /\ \A k \in 1..(Len(x) - 1) : ~(x[k] = "." /\ x[k + 1] = ".")
    /\ Cardinality({k \in 1..Len(x) : x[k] = "."}) <= 2

\* s holds a lower-bound term at i: '>=', white space, and a digit at j
LowerBoundTerm(s, i, j) ==
    /\ i >= 1 /\ i + 2 <= j /\ j <= Len(s)
    /\ s[i] = ">" /\ s[i + 1] = "="
    /\ \A k \in (i + 2)..(j - 1) : IsSpace(s[k])
    /\ s[j] \in Digits

\* r is the version of the first lower-bound term of s, verbatim: the longest
\* text after its '>=' that is one to three dot-separated integers
FirstLowerBound(s, r) ==
    \E i \in 1..Len(s), j \in 1..Len(s) :
        /\ LowerBoundTerm(s, i, j)
        /\ \A i2 \in 1..(i - 1), j2 \in 1..Len(s) : ~LowerBoundTerm(s, i2, j2)
        /\ j + Len(r) - 1 <= Len(s)
        /\ r = SubSeq(s, j, j + Len(r) - 1)
        /\ IsVersionText(r)
        /\ \A e \in (j + Len(r))..Len(s) : ~IsVersionText(SubSeq(s, j, e))

\* C3: version inference returns a value only when the constraint string
\* holds a lower-bound term '>=X' with X one to three dot-separated integers,
\* and then the X of the first such term verbatim; a bare version and strings
\* with only upper-bound, exclusion or exact-equality terms give no inference.
C3_OnlyLowerBoundYieldsVersion ==
    res # Unset =>
        /\ res = None <=>
              ~\E i \in 1..Len(arg), j \in 1..Len(arg) : LowerBoundTerm(arg, i, j)
        /\ res # None => FirstLowerBound(arg, res)
        /\ arg = <<">", "=", "3", ".", "1", "0">> => res = <<"3", ".", "1", "0">>
        /\ arg = <<">", "=", "3", ".", "8", ",", "<", "4">> => res = <<"3", ".", "8">>
        /\ arg \in { <<"3">>, <<"<", "4">>, <<"!", "=", "3">>,
                     <<"=", "=", "3", ".", "8">>, <<"=", "=", "3", ",", "<", "4">> }
              => res = None

\* C3 witness: '>=3.8,<4' has been matched and gave '3.8'
C3_Witness ==
    /\ arg = <<">", "=", "3", ".", "8", ",", "<", "4">>
    /\ res = <<"3", ".", "8">>

\* the text ' -p ' followed by a version, the flag of the inline policy
HasFlag(i) == inv[i].sent # None /\ inv[i].sent # inv[i].command

\* C4 (state part): a call that found .python-version present infers nothing,
\* reads no manifest, attempts no write and appends no flag.
C4_NoInferenceState ==
    \A i \in Invocations :
        inv[i].pinSeen = "exists" =>
            /\ inv[i].minVersion = None
            /\ ~inv[i].wrote /\ ~inv[i].writeFailed
            /\ inv[i].pc \in {"session", "wait_venv", "exec_wait", "done"}
            /\ ~HasFlag(i)

\* C4 (step part): the pin-file check of a call made while the file exists
\* ends the inference at once and changes no file; and a pin file that exists,
\* also one the pin-file policy wrote, keeps its content in every step.
C4_NoInferenceStep ==
    /\ \A i \in Invocations :
          (/\ inv[i].pc = "stat_pin"
           /\ fs[inv[i].folder].pin # NoFile
           /\ inv'[i] # inv[i]) =>
              /\ inv'[i].pinSeen = "exists"
              /\ inv'[i].inferDone /\ inv'[i].minVersion = None
              /\ inv'[i].pc = "session"
              /\ fs' = fs
    /\ \A d \in 1..Len(fs) : fs[d].pin # NoFile => fs'[d].pin = fs[d].pin

\* C4: whenever .python-version exists at the time of the check, inference
\* yields no inference whatever the manifest holds, appends no flag and writes
\* nothing; once the pin-file policy has written the file, later inferences on
\* the directory yield no inference and leave its content unchanged.
C4_ExistingPinWins == [](C4_NoInferenceState) /\ [][C4_NoInferenceStep]_vars

\* C4 witness: one call wrote the pin file, a later call on the same folder
\* found it, inferred nothing and has ended; the file holds what was written
C4_Witness ==
    \E i, j \in Invocations :
        /\ i # j
        /\ inv[i].wrote
        /\ inv[j].folder = inv[i].folder
        /\ inv[j].pinSeen = "exists"
        /\ inv[j].pc = "done"
        /\ fs[inv[i].folder].manifest = ManifestGe
        /\ fs[inv[i].folder].pin = <<"3", ".", "1", "0", "\n">>

\* C5: under the pin-file policy a call that found a minimum version and no
\* pin file writes the version followed by one newline and notifies the user;
\* when the write fails no error and no creation notice is shown and the
\* command is still handed to the terminal.
C5_PinWrittenOrSilentlySkipped ==
    PinPolicy(variant) =>
        \A i \in Invocations :
            /\ (inv[i].inferDone /\ inv[i].minVersion # None) =>
                  /\ inv[i].pinSeen = "absent"
                  /\ inv[i].wrote # inv[i].writeFailed
            /\ inv[i].wrote =>
                  /\ inv[i].minVersion # None
                  /\ fs[inv[i].folder].pin = Append(inv[i].minVersion, "\n")
                  /\ fs[inv[i].folder].manifest = ManifestGe =>
                        fs[inv[i].folder].pin = <<"3", ".", "1", "0", "\n">>
                  /\ InfoPinCreated \in inv[i].msgs
            /\ inv[i].writeFailed =>
                  /\ InfoPinCreated \notin inv[i].msgs
                  /\ inv[i].pc = "session" => inv[i].msgs = {}
                  /\ inv[i].msgs \subseteq {ErrRunFailed}
                  /\ inv[i].pc = "done" => inv[i].sent = inv[i].command
            /\ (inv[i].pinSeen = "absent" /\ inv[i].inferDone
                  /\ fs[inv[i].folder].manifest = ManifestGe) =>
                  inv[i].minVersion = <<"3", ".", "1", "0">>

\* C5 witness: on one folder one call's write failed and its command was sent
\* all the same, while another call wrote '3.10' and a newline
C5_Witness ==
    \E i, j \in Invocations :
        /\ PinPolicy(variant)
        /\ inv[i].writeFailed /\ inv[i].pc = "done" /\ inv[i].sent = CmdPlain
        /\ inv[i].msgs = {}
        /\ inv[j].wrote /\ inv[j].folder = inv[i].folder
        /\ fs[inv[j].folder].pin = <<"3", ".", "1", "0", "\n">>

\* C6: under the inline-flag policy the command handed over is the configured
\* command followed by ' -p V' when a minimum version V was found and the
\* configured command unchanged otherwise, and no call writes the pin file;
\* in no call of any variant are a pin file written and a flag appended.
C6_FlagAppendedNoPinWritten ==
    /\ ~PinPolicy(variant) =>
          /\ \A i \in Invocations :
                /\ ~inv[i].wrote /\ ~inv[i].writeFailed /\ inv[i].pc # "write_pin"
                /\ inv[i].sent # None =>
                      inv[i].sent =
                          IF inv[i].minVersion # None
                          THEN inv[i].configured \o <<" ", "-", "p", " ">>
                                   \o inv[i].minVersion
                          ELSE inv[i].configured
                /\ (inv[i].sent # None /\ inv[i].pinSeen = "absent"
                      /\ fs[inv[i].folder].manifest = ManifestGe) =>
                      inv[i].sent = inv[i].configured
                          \o <<" ", "-", "p", " ", "3", ".", "1", "0">>
                /\ (inv[i].sent # None /\ inv[i].folder # 0
                      /\ fs[inv[i].folder].manifest # ManifestGe) =>
                      inv[i].sent = inv[i].configured
          /\ \A d \in 1..Len(fs) : fs[d].pin \in {NoFile, PinExisting}
    /\ \A i \in Invocations : ~(inv[i].wrote /\ HasFlag(i))

\* C6 witness: the flag variant has sent 'uv -p 3.10' and the folder has no pin file
C6_Witness ==
    \E i \in Invocations :
        /\ variant = "flag_term"
        /\ inv[i].sent = <<"u", "v", " ", "-", "p", " ", "3", ".", "1", "0">>
        /\ fs[inv[i].folder].pin = NoFile

\* C7: in every call with a target folder the inference (the pin-file check,
\* the manifest read and, under the pin-file policy, the write attempt) is over
\* in the state from which the command is handed to the substrate.
C7_InferenceBeforeSubmit ==
    [][\A i \in Invocations :
          (inv[i].sent = None /\ inv'[i].sent # None /\ inv'[i].folder # 0) =>
              /\ inv[i].inferDone
              /\ inv[i].pinSeen # "unchecked"
              /\ inv[i].pc \in {"session", "wait_venv"}
              /\ (PinPolicy(variant) /\ inv[i].minVersion # None) =>
                    (inv[i].wrote \/ inv[i].writeFailed)]_vars

\* C7 witness: a call with a folder has handed over its command while another
\* call on a folder is suspended at its manifest read
C7_Witness ==
    \E i, j \in Invocations :
        /\ inv[i].folder # 0 /\ inv[i].sent # None /\ inv[i].inferDone
        /\ inv[j].folder # 0 /\ inv[j].pc = "read_manifest"

\* folder d has the manifest file and, in the stricter variant, the lock file
Qualifying(d) ==
    fs[d].manifest # NoFile /\ (variant = "flag_exec" => fs[d].lock)

\* the first qualifying folder in enumeration order, 0 when there is none
FirstQualifying ==
    IF \E d \in 1..Len(fs) : Qualifying(d)
    THEN CHOOSE d \in 1..Len(fs) :
             Qualifying(d) /\ \A e \in 1..(d - 1) : ~Qualifying(e)
    ELSE 0

\* C8: with automatic run enabled the timer callback checks the folders in
\* enumeration order, runs sync exactly once, on the first folder that has
\* the manifest (and the lock file in the stricter variant), checks no folder
\* after it, and when none qualifies submits nothing and shows no error.
C8_AutoRunsOnFirstQualifying ==
    cfgAutoEnable =>
        LET last == IF FirstQualifying = 0 THEN Len(fs) ELSE FirstQualifying
        IN  /\ auto.checked \subseteq 1..last
            /\ \A d \in auto.checked : \A e \in 1..(d - 1) : e \in auto.checked
            /\ auto.runs = IF Started(0) THEN 1 ELSE 0
            /\ Started(0) => auto.pc = "done"
            /\ auto.pc = "done" =>
                  /\ auto.checked = 1..last
                  /\ auto.found = FirstQualifying
                  /\ FirstQualifying # 0 =>
                        Started(0) /\ inv[0].folder = FirstQualifying
                  /\ FirstQualifying = 0 => inv[0] = InvIdle

\* C8 witness: the stricter variant passed over a first folder that has a
\* manifest but no lock file and sent the command for the second folder
C8_Witness ==
    /\ variant = "flag_exec" /\ cfgAutoEnable
    /\ Len(fs) = 2
    /\ fs[1].manifest # NoFile /\ ~fs[1].lock
    /\ auto.pc = "done" /\ auto.found = 2 /\ auto.checked = {1, 2}
    /\ inv[0].folder = 2 /\ inv[0].sent # None

(***************************************************************************)
(* Liveness: every pending callback of the event loop is eventually run    *)
(* (timers fire, awaited operations settle). The user closing terminals is *)
(* not part of this specification.                                         *)
(***************************************************************************)
Progress ==
    \/ TimerFires
    \/ ScanManifest
    \/ ScanLock
    \/ \E i \in Invocations : Step(i)

NextNoClose ==
    \/ ManualTrigger
    \/ TimerFires
    \/ ScanManifest
    \/ ScanLock
    \/ \E i \in Invocations : StatPin(i)
    \/ \E i \in Invocations : ReadManifest(i)
    \/ \E i \in Invocations : WritePin(i)
    \/ \E i \in Invocations : Session(i)
    \/ \E i \in Invocations : VenvWaitOver(i)
    \/ \E i \in Invocations : ExecSettles(i)

LiveSpec == Init /\ [][NextNoClose]_vars /\ WF_vars(Progress)

Manuals == 1..MaxManual

\* nothing is pending: the timer callback and every started call have ended
AllSettled ==
    /\ auto.pc \in {"off", "done"}
    /\ \A i \in Invocations : inv[i].pc \in {"idle", "done"}

\* the command passes the checks at the head of runSyncCommand
PassesValidation(command) ==
    /\ Trim(command) # <<>>
    /\ variant = "pin_modterm" => CleanHelp(command) # <<>>

\* C9 as stated, in the form a finite run refutes: with automatic run
\* enabled, a qualifying folder and a manual trigger, once everything has
\* settled both the manual and the automatic call have handed over a command.
C9_BothSubmitAsStated ==
    (/\ cfgAutoEnable /\ FirstQualifying # 0
     /\ \E i \in Manuals : Started(i)
     /\ AllSettled) =>
        /\ inv[0].sent # None
        /\ \A i \in Manuals : Started(i) => inv[i].sent # None

\* C9 (amended): a manual trigger is possible whatever the first folder holds
\* and while the startup delay is pending, starts a call on the first
\* workspace folder and leaves the timer task as it is; with automatic run
\* enabled, a qualifying folder and a configured command that passes
\* validation, the manual and the automatic call both eventually hand over
\* their command.
C9_ManualAndAutoBothSubmit ==
    /\ [](\A i \in Manuals :
             /\ Started(i) => inv[i].folder = (IF Len(fs) > 0 THEN 1 ELSE 0)
             /\ inv[i].pc = "idle" => ENABLED ManualTrigger)
    /\ [][\A i \in Manuals :
             (inv[i].pc = "idle" /\ inv'[i].pc # "idle") => auto' = auto]_vars
    /\ ((/\ cfgAutoEnable /\ FirstQualifying # 0
         /\ PassesValidation(cfgCommand)
         /\ \E i \in Manuals : Started(i))
          ~> (/\ inv[0].sent # None
              /\ \A i \in Manuals : Started(i) => inv[i].sent # None))

\* C9 witness: a manual call begun while the delay was pending, on a first
\* folder without manifest, and the automatic call on the second folder have
\* both handed over their command
C9_Witness ==
    \E i \in Manuals :
        /\ cfgAutoEnable /\ Len(fs) = 2
        /\ fs[1].manifest = NoFile
        /\ inv[i].inDelay /\ inv[i].folder = 1 /\ inv[i].sent # None
        /\ inv[0].folder = 2 /\ inv[0].sent # None

\* C10: in every call that hands over a command the terminal is revealed if
\* and only if the showOutput flag passed to the call is true.
C10_RevealedIffShowOutput ==
    \A i \in Invocations :
        (TakesShowOutput(variant) /\ inv[i].sent # None /\ inv[i].sendOk) =>
            (inv[i].revealed <=> inv[i].showOutput)

(***************************************************************************)
(* The execution session.                                                  *)
(***************************************************************************)
\* the calls that reached the session step of a terminal variant
HoldsTerminal(i) == inv[i].term # 0

Creators == {i \in Invocations : inv[i].created}

\* C11: as long as the user has closed no terminal, at most one 'uvs'
\* terminal has been created, it was created exactly when the first call
\* reached the session step and by one call only, and every call holds it and
\* has sent its command to it.
C11_SessionIsSingleton ==
    closes = 0 =>
        /\ Len(terminals) <= 1
        /\ Cardinality(Creators) = Len(terminals)
        /\ (Len(terminals) = 1) <=> (\E i \in Invocations : HoldsTerminal(i))
        /\ \A i \in Invocations :
              /\ HoldsTerminal(i) => inv[i].term = 1
              /\ (inv[i].sent # None /\ ~UsesExec(variant)) =>
                    inv[i].sentTo = 1 /\ inv[i].sendOk

\* C11 witness: with no terminal closed, two calls have sent their command to
\* the same terminal, which one of them created and the other found
C11_Witness ==
    /\ closes = 0
    /\ \E i, j \in Invocations :
          /\ inv[i].created /\ ~inv[j].created
          /\ inv[i].sentTo = 1 /\ inv[j].sentTo = 1
          /\ inv[i].sendOk /\ inv[j].sendOk

\* the user has closed the terminal the module-level variable refers to
ModuleTerminalClosed == terminal # 0 /\ terminals[terminal] = "closed"

\* C12: in the variant with the module-level terminal, a call that reaches the
\* session step after the user has closed the terminal creates a new terminal
\* and sends its command to that new, open terminal.
C12_RecreatedAfterClose ==
    [][\A i \in Invocations :
          (/\ variant = "pin_modterm"
           /\ ModuleTerminalClosed
           /\ inv[i].term = 0 /\ inv'[i].term # 0) =>
              /\ inv'[i].created
              /\ terminals'[inv'[i].term] = "open"
              /\ inv'[i].sentTo = inv'[i].term]_vars

(***************************************************************************)
(* Pin-file writes of overlapping calls.                                   *)
(***************************************************************************)
\* the calls whose writeFile of .python-version in folder d succeeded
PinWriters(d) == {i \in Invocations : inv[i].folder = d /\ inv[i].wrote}

\* C13: under the pin-file policy at most one call writes the pin file of a
\* directory, whatever the interleaving of the calls on that directory.
C13_AtMostOnePinWritePerDirectory ==
    PinPolicy(variant) =>
        \A d \in 1..Len(fs) : Cardinality(PinWriters(d)) <= 1

============================================================================
